---- MODULE Spec2Model ----
(***************************************************************************)
(* Kleanup: the rule-driven cleaner of Kubernetes manifests.                *)
(*                                                                         *)
(* A document is a KubernetesObject: apiVersion, kind, type (strings) and   *)
(* metadata, spec, status, data, stringData (nil or a string-keyed map).    *)
(* Every value below the top level is a dynamically typed Go interface{}:   *)
(* nil, a string, a number, a map[string]interface{} ("smap"), a            *)
(* map[interface{}]interface{} ("imap", what the yaml.v2 decoder builds for *)
(* every nested mapping) or a []interface{} ("list").  The Go type          *)
(* assertions of the source (x.(map[string]interface{}), x.([]interface{}), *)
(* x.(string)) are tests on the tag of the value.                           *)
(***************************************************************************)
EXTENDS Integers, Sequences, FiniteSets, TLC

VARIABLES input, options, failAt, documentCount, obj, orig, pc, phase,
          reverted, output, result

vars == <<input, options, failAt, documentCount, obj, orig, pc, phase,
          reverted, output, result>>

----------------------------------------------------------------------------
(* Dynamically typed values *)

Nil == [t |-> "nil"]

Str(s) == [t |-> "str", s |-> s]

Num(i) == [t |-> "num", i |-> i]

SMap(f) == [t |-> "smap", m |-> f]

IMap(f) == [t |-> "imap", m |-> f]

List(q) == [t |-> "list", q |-> q]

Bool(b) == [t |-> "bool", b |-> b]

\* a KubernetesObject struct handed over as an interface{}
Struct(o) == [t |-> "struct", o |-> o]

EmptyMap == [k \in {} |-> Nil]

\* v.(map[string]interface{})
IsSMap(v) == v.t = "smap"

\* v.([]interface{})
IsList(v) == v.t = "list"

\* v.(string)
IsStr(v) == v.t = "str"

\* m[k] of a Go map: the nil interface when the key is missing
Get(m, k) == IF k \in DOMAIN m THEN m[k] ELSE Nil

\* delete(m, k) for every k of ks
DelAll(m, ks) == [x \in DOMAIN m \ ks |-> m[x]]

\* delete(m, k)
Del(m, k) == DelAll(m, {k})

\* m[k] = v
Put(m, k, v) == [x \in DOMAIN m \cup {k} |-> IF x = k THEN v ELSE m[x]]

\* the elements of a list that differ from nil, in order
NonNil(q) == SelectSeq(q, LAMBDA x : x # Nil)

----------------------------------------------------------------------------
(* Strings *)

\* strings.HasPrefix
HasPrefix(s, prefix) ==
    Len(s) >= Len(prefix) /\ SubSeq(s, 1, Len(prefix)) = prefix

\* strings.HasSuffix
HasSuffix(s, suffix) ==
    Len(s) >= Len(suffix) /\ SubSeq(s, Len(s) - Len(suffix) + 1, Len(s)) = suffix

\* strings.LastIndex, 0-based, -1 when sub does not occur
LastIndex(s, sub) ==
    LET at == {i \in 1..(Len(s) - Len(sub) + 1) : SubSeq(s, i, i + Len(sub) - 1) = sub}
    IN  IF at = {} THEN -1 ELSE (CHOOSE i \in at : \A j \in at : j <= i) - 1

RECURSIVE SplitFrom(_, _, _)
SplitFrom(s, start, i) ==
    IF i > Len(s) THEN <<SubSeq(s, start, Len(s))>>
    ELSE IF SubSeq(s, i, i) = "."
         THEN <<SubSeq(s, start, i - 1)>> \o SplitFrom(s, i + 1, i + 1)
         ELSE SplitFrom(s, start, i + 1)

\* strings.Split(s, ".")
Split(s) == SplitFrom(s, 1, 1)

LowerLetters == "abcdefghijklmnopqrstuvwxyz"

UpperLetters == "ABCDEFGHIJKLMNOPQRSTUVWXYZ"

UpperChar(c) ==
    LET at == {i \in 1..Len(LowerLetters) : SubSeq(LowerLetters, i, i) = c}
    IN  IF at = {} THEN c ELSE LET i == CHOOSE i \in at : TRUE IN SubSeq(UpperLetters, i, i)

RECURSIVE ToUpper(_)
\* strings.ToUpper
ToUpper(s) ==
    IF Len(s) = 0 THEN s
    ELSE UpperChar(SubSeq(s, 1, 1)) \o ToUpper(SubSeq(s, 2, Len(s)))

----------------------------------------------------------------------------
(* State classification *)

resourceStateFields ==
    [Deployment |->
        ("metadata.generation" :> FALSE @@ "spec.replicas" :> TRUE @@
         "spec.strategy" :> TRUE @@ "spec.template" :> TRUE @@ "status" :> FALSE),
     Service |->
        ("spec.clusterIP" :> FALSE @@ "spec.clusterIPs" :> FALSE @@
         "spec.ports" :> TRUE @@ "spec.selector" :> TRUE @@ "status" :> FALSE),
     Pod |->
        ("metadata.generation" :> FALSE @@ "spec.containers" :> TRUE @@
         "spec.initContainers" :> TRUE @@ "spec.nodeName" :> FALSE @@
         "spec.nodeSelector" :> TRUE @@ "spec.volumes" :> TRUE @@ "status" :> FALSE)]

\* a path that the table does not list taken for runtime state as well
IsRuntimeFieldOrUnlisted(kind, path) ==
    \/ kind \notin DOMAIN resourceStateFields
    \/ path \notin DOMAIN resourceStateFields[kind]
    \/ ~resourceStateFields[kind][path]

\* stateFields[path] exists and is false: the path is classified as runtime state
IsRuntimeField(kind, path) ==
    /\ kind \in DOMAIN resourceStateFields
    /\ path \in DOMAIN resourceStateFields[kind]
    /\ ~resourceStateFields[kind][path]

----------------------------------------------------------------------------
(* Path resolver *)

TopLevelMaps == {"metadata", "spec", "status", "data", "stringData"}

RECURSIVE DeleteAtClearing(_, _)
\* the walk deleting the segment at which it cannot go on
DeleteAtClearing(m, parts) ==
    IF Len(parts) = 1 THEN Del(m, parts[1])
    ELSE IF IsSMap(Get(m, parts[1]))
         THEN Put(m, parts[1], SMap(DeleteAtClearing(m[parts[1]].m, Tail(parts))))
         ELSE Del(m, parts[1])

RECURSIVE DeleteAt(_, _)
\* walks parts[1..n-1] through string-keyed maps and deletes parts[n];
\* any segment that is missing or is no map[string]interface{} leaves m as it is
DeleteAt(m, parts) ==
    IF Len(parts) = 1 THEN Del(m, parts[1])
    ELSE IF IsSMap(Get(m, parts[1]))
         THEN Put(m, parts[1], SMap(DeleteAt(m[parts[1]].m, Tail(parts))))
         ELSE m

removeField(o, fieldPath) ==
    LET parts == Split(fieldPath)
    IN  IF Len(parts) = 1
        THEN IF parts[1] \in TopLevelMaps THEN [o EXCEPT ![parts[1]] = Nil]
             ELSE IF parts[1] = "type" THEN [o EXCEPT !.type = ""]
             ELSE o
        ELSE IF parts[1] \notin TopLevelMaps THEN o
        ELSE IF o[parts[1]] = Nil THEN o
        ELSE [o EXCEPT ![parts[1]] = SMap(DeleteAt(o[parts[1]].m, Tail(parts)))]

RECURSIVE removeFields(_, _)
removeFields(o, paths) ==
    IF paths = {} THEN o
    ELSE LET p == CHOOSE p \in paths : TRUE
         IN  removeFields(removeField(o, p), paths \ {p})

----------------------------------------------------------------------------
(* Structural pruner *)

RECURSIVE removeEmptyFields(_)

RECURSIVE removeEmptyFieldsByOriginal(_)
\* the pruner deciding on the value before it was cleaned instead of after
removeEmptyFieldsByOriginal(data) ==
    CASE data.t = "nil" -> Nil
      [] data.t \in {"smap", "imap"} ->
            LET kept == {k \in DOMAIN data.m : data.m[k] # Nil}
            IN  IF kept = {} THEN Nil
                ELSE SMap([k \in kept |-> removeEmptyFieldsByOriginal(data.m[k])])
      [] data.t = "list" ->
            LET kept == SelectSeq(data.q, LAMBDA x : x # Nil)
            IN  IF kept = <<>> THEN Nil
                ELSE List([i \in 1..Len(kept) |-> removeEmptyFieldsByOriginal(kept[i])])
      [] OTHER -> data

removeEmptyFields(data) ==
    CASE data.t = "nil" -> Nil
      [] data.t \in {"smap", "imap"} ->
            LET cleaned == [k \in DOMAIN data.m |-> removeEmptyFields(data.m[k])]
                kept == {k \in DOMAIN data.m : cleaned[k] # Nil \/ data.m[k] = Str("")}
            IN  IF cleaned = EmptyMap \/ kept = {} THEN Nil
                ELSE SMap([k \in kept |-> IF cleaned[k] # Nil THEN cleaned[k] ELSE Str("")])
      [] data.t = "list" ->
            LET cleaned == [i \in 1..Len(data.q) |-> removeEmptyFields(data.q[i])]
                kept == NonNil(cleaned)
            IN  IF kept = <<>> THEN Nil ELSE List(kept)
      [] OTHER -> data

cleanupEmptyTopLevelFields(o) ==
    [o EXCEPT !.metadata = removeEmptyFields(o.metadata),
              !.spec = removeEmptyFields(o.spec),
              !.status = removeEmptyFields(o.status),
              !.data = removeEmptyFields(o.data),
              !.stringData = removeEmptyFields(o.stringData)]

----------------------------------------------------------------------------
(* Metadata rule set *)

annotationPrefixesToRemove ==
    {"kubectl.kubernetes.io/", "deployment.kubernetes.io/", "apps.kubernetes.io/",
     "statefulset.kubernetes.io/", "service.kubernetes.io/", "batch.kubernetes.io/",
     "networking.k8s.io/", "rbac.authorization.k8s.io/", "argocd.argoproj.io/",
     "helm.sh/", "meta.helm.sh/", "fluxcd.io/", "kustomize.config.k8s.io/",
     "reloader.stakater.com/"}

annotationExactToRemove ==
    {"kubernetes.io/change-cause", "controller-revision-hash",
     "deprecated.daemonset.template.generation", "pod-template-hash"}

\* the annotations map after the deletions (the map is changed in place)
cleanAnnotations(annotations, removeAnnotations) ==
    LET shouldDelete(key) ==
            \/ key \in annotationExactToRemove
            \/ \E prefix \in annotationPrefixesToRemove : HasPrefix(key, prefix)
            \/ key \in removeAnnotations
    IN  DelAll(annotations, {key \in DOMAIN annotations : shouldDelete(key)})

\* the labels map after the deletions (the map is changed in place)
cleanLabels(labels, removeLabels) ==
    DelAll(labels, {key \in DOMAIN labels : key \in removeLabels})

\* the rule set with the owner references forgotten
metadataFieldsKeepingOwner(o, opts) ==
    {"creationTimestamp", "resourceVersion", "selfLink", "uid"}
    \cup (IF ~(opts.PreserveResourceState /\ opts.ResourceStateMode = "Runtime"
               /\ IsRuntimeField(o.kind, "metadata.generation"))
          THEN {"generation"} ELSE {})
    \cup (IF opts.RemoveManagedFields THEN {"managedFields"} ELSE {})
    \cup (IF opts.CleanupFinalizers THEN {"finalizers"} ELSE {})
    \cup (IF opts.RemoveNamespace THEN {"namespace"} ELSE {})

metadataFieldsToRemove(o, opts) ==
    {"creationTimestamp", "resourceVersion", "selfLink", "uid", "ownerReferences"}
    \cup (IF ~(opts.PreserveResourceState /\ opts.ResourceStateMode = "Runtime"
               /\ IsRuntimeField(o.kind, "metadata.generation"))
          THEN {"generation"} ELSE {})
    \cup (IF opts.RemoveManagedFields THEN {"managedFields"} ELSE {})
    \cup (IF opts.CleanupFinalizers THEN {"finalizers"} ELSE {})
    \cup (IF opts.RemoveNamespace THEN {"namespace"} ELSE {})

\* the metadata rule set dropping the metadata it has emptied
GenericMetadataCleanerDropping(o, opts) ==
    IF o.metadata = Nil THEN o
    ELSE
      LET m1 == DelAll(o.metadata.m, metadataFieldsToRemove(o, opts))
          m2 == IF IsSMap(Get(m1, "annotations"))
                THEN LET a == cleanAnnotations(m1["annotations"].m, opts.RemoveAnnotations)
                     IN  IF DOMAIN a = {} THEN Del(m1, "annotations")
                         ELSE Put(m1, "annotations", SMap(a))
                ELSE m1
          m3 == IF IsSMap(Get(m2, "labels"))
                THEN LET l == cleanLabels(m2["labels"].m, opts.RemoveLabels)
                     IN  IF DOMAIN l = {} THEN Del(m2, "labels")
                         ELSE Put(m2, "labels", SMap(l))
                ELSE m2
      IN  [o EXCEPT !.metadata = IF DOMAIN m3 = {} THEN Nil ELSE SMap(m3)]

GenericMetadataCleaner_Clean(o, opts) ==
    IF o.metadata = Nil THEN o
    ELSE
      LET m1 == DelAll(o.metadata.m, metadataFieldsToRemove(o, opts))
          m2 == IF IsSMap(Get(m1, "annotations"))
                THEN LET a == cleanAnnotations(m1["annotations"].m, opts.RemoveAnnotations)
                     IN  IF DOMAIN a = {} THEN Del(m1, "annotations")
                         ELSE Put(m1, "annotations", SMap(a))
                ELSE m1
          m3 == IF IsSMap(Get(m2, "labels"))
                THEN LET l == cleanLabels(m2["labels"].m, opts.RemoveLabels)
                     IN  IF DOMAIN l = {} THEN Del(m2, "labels")
                         ELSE Put(m2, "labels", SMap(l))
                ELSE m2
      IN  [o EXCEPT !.metadata = SMap(m3)]

----------------------------------------------------------------------------
(* Generic rule set *)

\* the gate with the flags read the wrong way round
fieldsToRemoveForStateInverted(o, opts) ==
    IF opts.PreserveResourceState /\ o.kind \in DOMAIN resourceStateFields
    THEN {fieldPath \in DOMAIN resourceStateFields[o.kind] :
            LET isDesired == resourceStateFields[o.kind][fieldPath]
            IN  \/ opts.ResourceStateMode = "Desired" /\ isDesired
                \/ opts.ResourceStateMode = "Runtime" /\ ~isDesired}
    ELSE {}

\* the gate working whether or not state is to be preserved
fieldsToRemoveForStateAlways(o, opts) ==
    IF o.kind \in DOMAIN resourceStateFields
    THEN {fieldPath \in DOMAIN resourceStateFields[o.kind] :
            LET isDesired == resourceStateFields[o.kind][fieldPath]
            IN  \/ opts.ResourceStateMode = "Desired" /\ ~isDesired
                \/ opts.ResourceStateMode = "Runtime" /\ isDesired}
    ELSE {}

\* the table paths of the object's kind whose flag is opposite to the mode
fieldsToRemoveForState(o, opts) ==
    IF opts.PreserveResourceState /\ o.kind \in DOMAIN resourceStateFields
    THEN {fieldPath \in DOMAIN resourceStateFields[o.kind] :
            LET isDesired == resourceStateFields[o.kind][fieldPath]
            IN  \/ opts.ResourceStateMode = "Desired" /\ ~isDesired
                \/ opts.ResourceStateMode = "Runtime" /\ isDesired}
    ELSE {}

\* removeEmptyFields(obj) is handed the *KubernetesObject itself: the pointer is
\* followed to the struct, which is neither map nor slice, and the value the
\* call returns is dropped
discardedPrune(o) ==
    LET ignored == removeEmptyFields(Struct(o)) IN o

\* the state preservation handling that opens the generic cleaner
stateGate(o, opts) == removeFields(o, fieldsToRemoveForState(o, opts))

GenericObjectCleaner_Clean(o, opts) ==
    LET o1 == stateGate(o, opts)
        o2 == IF o1.metadata # Nil THEN GenericMetadataCleaner_Clean(o1, opts) ELSE o1
        o3 == IF opts.RemoveStatus
                 /\ ~(opts.PreserveResourceState /\ opts.ResourceStateMode = "Runtime"
                      /\ IsRuntimeField(o2.kind, "status"))
              THEN [o2 EXCEPT !.status = Nil] ELSE o2
    IN  IF opts.RemoveEmpty THEN discardedPrune(o3) ELSE o3

----------------------------------------------------------------------------
(* Pod-spec, container-spec and volume rules *)

podFieldsToRemove ==
    {"nodeName", "dnsPolicy", "schedulerName", "enableServiceLinks", "preemptionPolicy",
     "terminationGracePeriodSeconds", "hostIP", "podIP", "podIPs", "hostPID",
     "hostNetwork", "hostIPC", "hostname", "subdomain", "shareProcessNamespace",
     "runtimeClassName", "readinessGates", "setHostnameAsFQDN"}

\* the decision with a field that the table does not list removed in every mode
podFieldRemovedUnlisted(field, opts) ==
    IF ~opts.PreserveResourceState THEN TRUE
    ELSE LET fieldPath == "spec." \o field
         IN  IF fieldPath \in DOMAIN resourceStateFields["Pod"]
             THEN LET isDesired == resourceStateFields["Pod"][fieldPath]
                  IN  ~(\/ opts.ResourceStateMode = "Desired" /\ isDesired
                        \/ opts.ResourceStateMode = "Runtime" /\ ~isDesired)
             ELSE TRUE

\* whether cleanPodSpec removes the field under the options
podFieldRemoved(field, opts) ==
    IF ~opts.PreserveResourceState THEN TRUE
    ELSE LET fieldPath == "spec." \o field
             podStateOk == "Pod" \in DOMAIN resourceStateFields
         IN  IF podStateOk
             THEN IF fieldPath \in DOMAIN resourceStateFields["Pod"]
                  THEN LET isDesired == resourceStateFields["Pod"][fieldPath]
                       IN  ~(\/ opts.ResourceStateMode = "Desired" /\ isDesired
                             \/ opts.ResourceStateMode = "Runtime" /\ ~isDesired)
                  ELSE opts.ResourceStateMode # "Runtime"
             ELSE opts.ResourceStateMode # "Runtime"

\* a ports list with the default protocol dropped and emptied entries discarded;
\* entries that are no map[string]interface{} are kept as they are
cleanPorts(ports) ==
    LET cleanPort(p) ==
            IF IsSMap(p)
            THEN IF "protocol" \in DOMAIN p.m /\ IsStr(p.m["protocol"])
                    /\ ToUpper(p.m["protocol"].s) = "TCP"
                 THEN SMap(Del(p.m, "protocol")) ELSE p
            ELSE p
        cleaned == [i \in 1..Len(ports) |-> cleanPort(ports[i])]
    IN  SelectSeq(cleaned, LAMBDA p : ~(IsSMap(p) /\ DOMAIN p.m = {}))

\* m with its "ports" list cleaned, the key deleted when no entry is left
withCleanPorts(m) ==
    IF IsList(Get(m, "ports"))
    THEN LET cleanedPorts == cleanPorts(m["ports"].q)
         IN  IF Len(cleanedPorts) > 0 THEN Put(m, "ports", List(cleanedPorts))
             ELSE Del(m, "ports")
    ELSE m

containerFieldsToRemove ==
    {"terminationMessagePath", "terminationMessagePolicy", "imagePullPolicy",
     "tty", "stdin", "stdinOnce"}

cleanContainerSpec(container, opts) ==
    withCleanPorts(DelAll(container, containerFieldsToRemove))

\* spec[containerType] with every string-keyed entry cleaned and emptied entries dropped
cleanContainers(spec, containerType, opts) ==
    IF IsList(Get(spec, containerType))
    THEN LET containers == spec[containerType].q
             cleaned == [i \in 1..Len(containers) |->
                            IF IsSMap(containers[i])
                            THEN SMap(cleanContainerSpec(containers[i].m, opts))
                            ELSE containers[i]]
             cleanedContainers == SelectSeq(cleaned, LAMBDA c : ~(IsSMap(c) /\ DOMAIN c.m = {}))
         IN  IF Len(cleanedContainers) > 0
             THEN Put(spec, containerType, List(cleanedContainers))
             ELSE Del(spec, containerType)
    ELSE spec

\* the volume has a string name that begins with kube-api-access-
isApiAccessVolume(volume) ==
    /\ IsSMap(volume)
    /\ IsStr(Get(volume.m, "name"))
    /\ HasPrefix(volume.m["name"].s, "kube-api-access-")

\* the volume has a string name and a projected source with a serviceAccountToken
isTokenVolume(volume) ==
    /\ IsSMap(volume)
    /\ IsSMap(Get(volume.m, "projected"))
    /\ IsList(Get(volume.m["projected"].m, "sources"))
    /\ \E i \in 1..Len(volume.m["projected"].m["sources"].q) :
          LET source == volume.m["projected"].m["sources"].q[i]
          IN  IsSMap(source) /\ "serviceAccountToken" \in DOMAIN source.m
    /\ IsStr(Get(volume.m, "name"))

volumeRemoved(volume) == isApiAccessVolume(volume) \/ isTokenVolume(volume)

\* the names of the volumes cleanPodVolumes takes out of spec["volumes"]
volumesToRemove(spec) ==
    IF IsList(Get(spec, "volumes"))
    THEN {spec["volumes"].q[i].m["name"].s :
            i \in {j \in 1..Len(spec["volumes"].q) : volumeRemoved(spec["volumes"].q[j])}}
    ELSE {}

\* spec[containerType] with the mounts of removed volumes taken out of every
\* string-keyed container
cleanMounts(spec, containerType, removed) ==
    IF IsList(Get(spec, containerType))
    THEN LET keepMount(vm) ==
                 ~(IsSMap(vm) /\ IsStr(Get(vm.m, "name")) /\ vm.m["name"].s \in removed)
             cleanContainer(c) ==
                 IF IsSMap(c) /\ IsList(Get(c.m, "volumeMounts"))
                 THEN LET cleanedVolumeMounts == SelectSeq(c.m["volumeMounts"].q, keepMount)
                      IN  IF Len(cleanedVolumeMounts) > 0
                          THEN SMap(Put(c.m, "volumeMounts", List(cleanedVolumeMounts)))
                          ELSE SMap(Del(c.m, "volumeMounts"))
                 ELSE c
         IN  Put(spec, containerType,
                 List([i \in 1..Len(spec[containerType].q) |->
                          cleanContainer(spec[containerType].q[i])]))
    ELSE spec

\* the volume rule with the init containers forgotten
cleanPodVolumesOfContainers(spec) ==
    LET removed == volumesToRemove(spec)
        s1 == IF IsList(Get(spec, "volumes"))
              THEN LET cleanedVolumes ==
                           SelectSeq(spec["volumes"].q, LAMBDA v : ~volumeRemoved(v))
                   IN  IF Len(cleanedVolumes) > 0
                       THEN Put(spec, "volumes", List(cleanedVolumes))
                       ELSE Del(spec, "volumes")
              ELSE spec
    IN  IF removed = {} THEN s1 ELSE cleanMounts(s1, "containers", removed)

cleanPodVolumes(spec) ==
    LET removed == volumesToRemove(spec)
        s1 == IF IsList(Get(spec, "volumes"))
              THEN LET cleanedVolumes ==
                           SelectSeq(spec["volumes"].q, LAMBDA v : ~volumeRemoved(v))
                   IN  IF Len(cleanedVolumes) > 0
                       THEN Put(spec, "volumes", List(cleanedVolumes))
                       ELSE Del(spec, "volumes")
              ELSE spec
    IN  IF removed = {} THEN s1
        ELSE cleanMounts(cleanMounts(s1, "containers", removed), "initContainers", removed)

cleanPodSpec(spec, opts) ==
    LET s1 == DelAll(spec, {field \in podFieldsToRemove : podFieldRemoved(field, opts)})
        s2 == cleanContainers(cleanContainers(s1, "containers", opts), "initContainers", opts)
        s3 == cleanPodVolumes(s2)
    IN  IF IsList(Get(s3, "volumes")) /\ Len(s3["volumes"].q) = 0
        THEN Del(s3, "volumes") ELSE s3

----------------------------------------------------------------------------
(* Kind-specific rule sets: the part of each Clean after the generic cleaner *)
(* and before the closing prune of the top-level fields                      *)

\* template with its pod spec cleaned and pruned, the key deleted when nothing is left
cleanTemplateSpec(template, opts) ==
    IF IsSMap(Get(template, "spec"))
    THEN LET cleanedSpec == removeEmptyFields(SMap(cleanPodSpec(template["spec"].m, opts)))
         IN  IF cleanedSpec = Nil THEN Del(template, "spec")
             ELSE Put(template, "spec", cleanedSpec)
    ELSE template

\* template with creationTimestamp taken out of its metadata and the metadata pruned
cleanTemplateMeta(template) ==
    IF IsSMap(Get(template, "metadata"))
    THEN LET cleanedTemplateMeta ==
                 removeEmptyFields(SMap(Del(template["metadata"].m, "creationTimestamp")))
         IN  IF cleanedTemplateMeta = Nil THEN Del(template, "metadata")
             ELSE Put(template, "metadata", cleanedTemplateMeta)
    ELSE template

\* spec with its string-keyed pod template cleaned
cleanPodTemplate(spec, opts) ==
    IF IsSMap(Get(spec, "template"))
    THEN Put(spec, "template",
             SMap(cleanTemplateSpec(cleanTemplateMeta(spec["template"].m), opts)))
    ELSE spec

keepsRuntime(opts) == opts.PreserveResourceState /\ opts.ResourceStateMode = "Runtime"

keepsDesired(opts) == opts.PreserveResourceState /\ opts.ResourceStateMode = "Desired"

DeploymentRules(o, opts) ==
    IF o.spec = Nil THEN o
    ELSE LET s1 == IF ~keepsRuntime(opts)
                   THEN DelAll(o.spec.m, {"revisionHistoryLimit", "progressDeadlineSeconds"})
                   ELSE o.spec.m
         IN  [o EXCEPT !.spec = SMap(cleanPodTemplate(s1, opts))]

StatefulSetRulesKeepingHistory(o, opts) ==
    IF o.spec = Nil THEN o
    ELSE [o EXCEPT !.spec = SMap(cleanPodTemplate(o.spec.m, opts))]

StatefulSetRules(o, opts) ==
    IF o.spec = Nil THEN o
    ELSE LET s1 == IF ~keepsRuntime(opts)
                   THEN Del(o.spec.m, "revisionHistoryLimit") ELSE o.spec.m
         IN  [o EXCEPT !.spec = SMap(cleanPodTemplate(s1, opts))]

DaemonSetRules(o, opts) ==
    IF o.spec = Nil THEN o
    ELSE LET s1 == IF ~keepsRuntime(opts)
                   THEN Del(o.spec.m, "revisionHistoryLimit") ELSE o.spec.m
         IN  [o EXCEPT !.spec = SMap(cleanPodTemplate(s1, opts))]

ServiceRules(o, opts) ==
    IF o.spec = Nil THEN o
    ELSE LET s1 == IF ~keepsDesired(opts)
                   THEN DelAll(o.spec.m, {"clusterIP", "clusterIPs", "ipFamilies",
                                          "ipFamilyPolicy", "internalTrafficPolicy"})
                   ELSE o.spec.m
         IN  [o EXCEPT !.spec = SMap(withCleanPorts(s1))]

\* the Pod that was not reconstructed
PodRules(o, opts) ==
    IF o.spec = Nil THEN o
    ELSE [o EXCEPT !.spec = removeEmptyFields(SMap(cleanPodSpec(o.spec.m, opts)))]

\* the Pod that was reconstructed into a Deployment
RevertedPodRules(o, opts) ==
    IF o.spec # Nil /\ IsSMap(Get(o.spec.m, "template"))
    THEN [o EXCEPT !.spec =
             SMap(Put(o.spec.m, "template",
                      SMap(cleanTemplateSpec(o.spec.m["template"].m, opts))))]
    ELSE o

cleanConfigMapData(data) ==
    DelAll(data, {key \in DOMAIN data :
                    key = "kubectl.kubernetes.io/last-applied-configuration"})

ConfigMapRules(o, opts) ==
    IF o.data = Nil THEN o
    ELSE LET d == cleanConfigMapData(o.data.m)
         IN  [o EXCEPT !.data = IF DOMAIN d = {} THEN Nil ELSE SMap(d)]

\* whether the Secret is reported as a default service-account token
secretNoted(o) ==
    /\ o.type = "kubernetes.io/service-account-token"
    /\ o.metadata # Nil
    /\ IsStr(Get(o.metadata.m, "name"))
    /\ HasPrefix(o.metadata.m["name"].s, "default-token-")

\* the cleaner emptying what it reports as a default service-account token
SecretRulesDroppingTokens(o, opts) ==
    IF secretNoted(o) THEN [o EXCEPT !.data = Nil, !.stringData = Nil, !.type = ""]
    ELSE [o EXCEPT !.data = IF o.data # Nil /\ DOMAIN o.data.m = {} THEN Nil ELSE o.data,
                   !.stringData = IF o.stringData # Nil /\ DOMAIN o.stringData.m = {}
                                  THEN Nil ELSE o.stringData]

SecretRules(o, opts) ==
    [o EXCEPT !.data = IF o.data # Nil /\ DOMAIN o.data.m = {} THEN Nil ELSE o.data,
              !.stringData = IF o.stringData # Nil /\ DOMAIN o.stringData.m = {}
                             THEN Nil ELSE o.stringData]

\* the closing step of every kind-specific Clean
finalCleanup(o, opts) ==
    IF opts.RemoveEmpty THEN cleanupEmptyTopLevelFields(o) ELSE o

----------------------------------------------------------------------------
(* Controller reconstructor *)

deriveBaseName(podName, hash) ==
    LET hashSuffixPattern == "-" \o hash \o "-"
        index == LastIndex(podName, hashSuffixPattern)
        hashSuffix == "-" \o hash
    IN  IF index # -1 THEN [name |-> SubSeq(podName, 1, index), ok |-> TRUE]
        ELSE IF HasSuffix(podName, hashSuffix)
             THEN [name |-> SubSeq(podName, 1, Len(podName) - Len(hashSuffix)), ok |-> TRUE]
             ELSE [name |-> "", ok |-> FALSE]

\* the guard without the test for an empty hash
revertGuardAnyHash(o) ==
    /\ o.kind = "Pod"
    /\ o.metadata # Nil
    /\ IsSMap(Get(o.metadata.m, "labels"))
    /\ "pod-template-hash" \in DOMAIN o.metadata.m["labels"].m
    /\ IsStr(o.metadata.m["labels"].m["pod-template-hash"])

\* the guard of the reconstructor: a Pod with metadata whose string-keyed labels
\* carry a non-empty string pod-template-hash
revertGuard(o) ==
    /\ o.kind = "Pod"
    /\ o.metadata # Nil
    /\ IsSMap(Get(o.metadata.m, "labels"))
    /\ "pod-template-hash" \in DOMAIN o.metadata.m["labels"].m
    /\ IsStr(o.metadata.m["labels"].m["pod-template-hash"])
    /\ o.metadata.m["labels"].m["pod-template-hash"].s # ""

\* the labels copied with the template hash among them
deploymentLabelsWithHash(podLabels, deploymentName) ==
    IF DOMAIN podLabels = {} THEN [app |-> Str(deploymentName)] ELSE podLabels

\* the labels of the Pod without pod-template-hash; app=<name> when none is left
deploymentLabelsOf(podLabels, deploymentName) ==
    LET copied == Del(podLabels, "pod-template-hash")
    IN  IF DOMAIN copied = {} THEN [app |-> Str(deploymentName)] ELSE copied

\* a nil map[string]interface{} stored in an interface{} still passes the
\* assertion .(map[string]interface{}) and has no keys
asMapValue(top) == IF top = Nil THEN SMap(EmptyMap) ELSE top

\* [ok, panic, obj]: ok is the value returned; panic is the failed assertion
\* originalName.(string), which ends the program
revertPodToDeployment(o) ==
    IF ~revertGuard(o) THEN [ok |-> FALSE, panic |-> FALSE, obj |-> o]
    ELSE
      LET podLabels == o.metadata.m["labels"].m
          hashStr == podLabels["pod-template-hash"].s
          originalName == Get(o.metadata.m, "name")
          originalNamespace == Get(o.metadata.m, "namespace")
      IN  IF ~IsStr(originalName) THEN [ok |-> FALSE, panic |-> TRUE, obj |-> o]
          ELSE
            LET baseName == deriveBaseName(originalName.s, hashStr)
                deploymentName == IF baseName.ok THEN baseName.name
                                  ELSE originalName.s \o "-reverted"
                deploymentLabels == deploymentLabelsOf(podLabels, deploymentName)
                templateLabels == deploymentLabels
                meta == [name |-> Str(deploymentName), labels |-> SMap(deploymentLabels)]
                originalPodSpec == asMapValue(o.spec)
            IN  [ok |-> TRUE, panic |-> FALSE,
                 obj |-> [o EXCEPT
                    !.apiVersion = "apps/v1",
                    !.kind = "Deployment",
                    !.metadata = SMap(Del(IF originalNamespace # Nil
                                          THEN Put(meta, "namespace", originalNamespace)
                                          ELSE meta, "generateName")),
                    !.spec = SMap([replicas |-> Num(1),
                                   selector |-> SMap([matchLabels |-> SMap(templateLabels)]),
                                   template |-> SMap([metadata |->
                                                        SMap([labels |-> SMap(templateLabels)]),
                                                      spec |-> originalPodSpec])]),
                    !.status = Nil,
                    !.data = Nil,
                    !.stringData = Nil,
                    !.type = ""]]

----------------------------------------------------------------------------
(* Dispatch registry and the cleaners as whole functions *)

SpecificKinds ==
    {"Deployment", "Service", "StatefulSet", "DaemonSet", "Pod", "ConfigMap", "Secret"}

\* the registry falling back on the Deployment cleaner
GetCleanerOfWorkloads(kind) ==
    IF kind = "" THEN "Generic"
    ELSE IF kind \in SpecificKinds \cup {"Generic"} THEN kind
    ELSE "Deployment"

\* the name under which the factory registers the cleaner it returns
GetCleaner(kind) ==
    IF kind = "" THEN "Generic"
    ELSE IF kind \in SpecificKinds \cup {"Generic"} THEN kind
    ELSE "Generic"

\* the kind-specific part of the cleaner registered under name
kindRules(name, o, opts) ==
    CASE name = "Deployment" -> DeploymentRules(o, opts)
      [] name = "Service" -> ServiceRules(o, opts)
      [] name = "StatefulSet" -> StatefulSetRules(o, opts)
      [] name = "DaemonSet" -> DaemonSetRules(o, opts)
      [] name = "Pod" -> PodRules(o, opts)
      [] name = "ConfigMap" -> ConfigMapRules(o, opts)
      [] name = "Secret" -> SecretRules(o, opts)

\* [panic, obj]: the object after cleaner.Clean(obj, options)
Clean(name, o, opts) ==
    IF name = "Generic" THEN [panic |-> FALSE, obj |-> GenericObjectCleaner_Clean(o, opts)]
    ELSE IF name = "Pod" /\ opts.RevertToDeployment
    THEN LET r == revertPodToDeployment(o)
         IN  IF r.panic THEN [panic |-> TRUE, obj |-> o]
             ELSE IF r.ok
             THEN [panic |-> FALSE,
                   obj |-> finalCleanup(
                             RevertedPodRules(GenericObjectCleaner_Clean(r.obj, opts), opts),
                             opts)]
             ELSE [panic |-> FALSE,
                   obj |-> finalCleanup(
                             PodRules(GenericObjectCleaner_Clean(o, opts), opts), opts)]
    ELSE [panic |-> FALSE,
          obj |-> finalCleanup(kindRules(name, GenericObjectCleaner_Clean(o, opts), opts),
                               opts)]

cleanupKubernetesObject(o, opts) ==
    IF o.kind = "" THEN [panic |-> FALSE, obj |-> o]
    ELSE Clean(GetCleaner(o.kind), o, opts)

----------------------------------------------------------------------------
(* Input documents *)

KubernetesObject(apiVersion, kind, metadata, spec, status, data, stringData, type) ==
    [apiVersion |-> apiVersion, kind |-> kind, metadata |-> metadata, spec |-> spec,
     status |-> status, data |-> data, stringData |-> stringData, type |-> type]

RECURSIVE Generic(_)
\* the value with every mapping in it keyed generically, as the decoder builds it
Generic(v) ==
    CASE v.t \in {"smap", "imap"} -> IMap([k \in DOMAIN v.m |-> Generic(v.m[k])])
      [] v.t = "list" -> List([i \in 1..Len(v.q) |-> Generic(v.q[i])])
      [] OTHER -> v

\* a top-level field of the struct as decoder.Decode fills it: the field itself
\* is a map[string]interface{}, every mapping below it is generically keyed
DecodedField(v) ==
    IF v = Nil THEN Nil ELSE SMap([k \in DOMAIN v.m |-> Generic(v.m[k])])

\* the object as the stream decoder yields it
Decoded(o) ==
    [o EXCEPT !.metadata = DecodedField(o.metadata), !.spec = DecodedField(o.spec),
              !.status = DecodedField(o.status), !.data = DecodedField(o.data),
              !.stringData = DecodedField(o.stringData)]

MetaFull ==
    SMap([name |-> Str("myapp-abc123-xk2qz"), namespace |-> Str("prod"),
          uid |-> Str("a174f3d1"), resourceVersion |-> Str("4433"),
          creationTimestamp |-> Str("2023-04-08T19:51:09Z"), selfLink |-> Str("/api/v1/x"),
          generation |-> Num(2),
          ownerReferences |-> List(<<SMap([kind |-> Str("ReplicaSet"), name |-> Str("myapp-abc123")])>>),
          managedFields |-> List(<<SMap([manager |-> Str("kubectl")])>>),
          finalizers |-> List(<<Str("foregroundDeletion")>>),
          annotations |-> SMap("deployment.kubernetes.io/revision" :> Str("2")
                               @@ "note" :> Str("keep")),
          labels |-> SMap("app" :> Str("myapp") @@ "pod-template-hash" :> Str("abc123"))])

\* nothing but fields the metadata rules delete
MetaRuntimeOnly ==
    SMap([uid |-> Str("a174f3d1"), resourceVersion |-> Str("4433"),
          generation |-> Num(2),
          annotations |-> SMap("kubectl.kubernetes.io/last-applied-configuration" :> Str("{}"))])

MetaEmpty == SMap(EmptyMap)

MetaNamed == SMap([name |-> Str("myapp"), uid |-> Str("a174f3d1")])

\* the hash label, no name
MetaHashNoName ==
    SMap([uid |-> Str("a174f3d1"),
          labels |-> SMap("app" :> Str("myapp") @@ "pod-template-hash" :> Str("abc123"))])

MetaHashEmpty ==
    SMap([name |-> Str("myapp-abc123-xk2qz"),
          labels |-> SMap("app" :> Str("myapp") @@ "pod-template-hash" :> Str(""))])

MetaHashNotString ==
    SMap([name |-> Str("myapp-abc123-xk2qz"),
          labels |-> SMap("app" :> Str("myapp") @@ "pod-template-hash" :> Num(7))])

MetaNoHash ==
    SMap([name |-> Str("myapp-abc123-xk2qz"), labels |-> SMap([app |-> Str("myapp")])])

\* the hash label alone, and a name that ends in the hash
MetaHashOnly ==
    SMap([name |-> Str("myapp-abc123"), namespace |-> Str("prod"),
          labels |-> SMap("pod-template-hash" :> Str("abc123"))])

\* a name that does not carry the hash
MetaHashOtherName ==
    SMap([name |-> Str("standalone"), generateName |-> Str("myapp-abc123-"),
          labels |-> SMap("app" :> Str("myapp") @@ "pod-template-hash" :> Str("abc123"))])

TokenVolume ==
    SMap([name |-> Str("kube-api-access-x7k2p"),
          projected |-> SMap([sources |-> List(<<SMap([serviceAccountToken |->
                                                          SMap([path |-> Str("token")])])>>)])])

PodSpecFull ==
    [nodeName |-> Str("node-1"), dnsPolicy |-> Str("ClusterFirst"),
     terminationGracePeriodSeconds |-> Num(30),
     nodeSelector |-> SMap([disk |-> Str("ssd")]),
     containers |-> List(<<
        SMap([name |-> Str("app"), image |-> Str("nginx"),
              imagePullPolicy |-> Str("Always"), tty |-> Bool(TRUE),
              ports |-> List(<<SMap([containerPort |-> Num(80), protocol |-> Str("TCP")]),
                               SMap([containerPort |-> Num(53), protocol |-> Str("UDP")])>>),
              volumeMounts |-> List(<<SMap([name |-> Str("data"), mountPath |-> Str("/data")]),
                                      SMap([name |-> Str("kube-api-access-x7k2p")])>>)])>>),
     initContainers |-> List(<<
        SMap([name |-> Str("init"), image |-> Str("busybox"),
              volumeMounts |-> List(<<SMap([name |-> Str("kube-api-access-x7k2p")])>>)])>>),
     volumes |-> List(<<SMap([name |-> Str("data"), emptyDir |-> SMap(EmptyMap)]),
                        TokenVolume>>)]

\* one container that holds nothing but runtime fields and the mount of a
\* projected token volume
PodSpecToken ==
    [containers |-> List(<<
        SMap([stdin |-> Bool(TRUE), ports |-> List(<<SMap([protocol |-> Str("tcp")])>>),
              volumeMounts |-> List(<<SMap([name |-> Str("sa-token")])>>)])>>),
     volumes |-> List(<<
        SMap([name |-> Str("sa-token"),
              projected |-> SMap([sources |-> List(<<SMap([serviceAccountToken |->
                                                              SMap(EmptyMap)])>>)])])>>)]

PodSpecClean ==
    [containers |-> List(<<SMap([name |-> Str("app"), image |-> Str("nginx")])>>)]

PodSpecRuntimeOnly == [nodeName |-> Str("node-1"), hostIP |-> Str("10.0.0.1")]

PodSpecs == {PodSpecFull, PodSpecToken, PodSpecClean, PodSpecRuntimeOnly}

WorkloadSpec(podSpec) ==
    SMap([replicas |-> Num(1), revisionHistoryLimit |-> Num(10),
          progressDeadlineSeconds |-> Num(600),
          strategy |-> SMap([type |-> Str("RollingUpdate")]),
          updateStrategy |-> SMap([type |-> Str("RollingUpdate")]),
          selector |-> SMap([matchLabels |-> SMap([app |-> Str("myapp")])]),
          template |-> SMap([metadata |-> SMap([creationTimestamp |-> Nil,
                                                labels |-> SMap([app |-> Str("myapp")])]),
                             spec |-> SMap(podSpec)])])

\* a template that holds nothing once it is cleaned
WorkloadSpecHollow ==
    SMap([revisionHistoryLimit |-> Num(10),
          template |-> SMap([metadata |-> SMap([creationTimestamp |-> Nil]),
                             spec |-> SMap(PodSpecRuntimeOnly)])])

WorkloadSpecNoTemplate == SMap([replicas |-> Num(1), paused |-> Bool(FALSE)])

StatusFull == SMap([replicas |-> Num(1), conditions |-> List(<<>>)])

ServiceSpecFull ==
    SMap([clusterIP |-> Str("10.96.0.10"), clusterIPs |-> List(<<Str("10.96.0.10")>>),
          ipFamilies |-> List(<<Str("IPv4")>>), type |-> Str("ClusterIP"),
          selector |-> SMap([app |-> Str("myapp")]),
          ports |-> List(<<SMap([port |-> Num(80), protocol |-> Str("TCP")]),
                           SMap([port |-> Num(53), protocol |-> Str("UDP")]),
                           SMap([protocol |-> Str("tcp")])>>)])

ServiceSpecTcpOnly == SMap([ports |-> List(<<SMap([protocol |-> Str("TCP")])>>)])

ServiceSpecScenario ==
    SMap([ports |-> List(<<SMap([port |-> Num(80), protocol |-> Str("TCP")])>>)])

GenericSpec ==
    SMap([rules |-> List(<<>>), tls |-> SMap(EmptyMap), ingressClassName |-> Str("nginx")])

ConfigData ==
    SMap("kubectl.kubernetes.io/last-applied-configuration" :> Str("{}")
         @@ "extra" :> Str("kubectl.kubernetes.io/last-applied-configuration={}")
         @@ "key" :> Str("value") @@ "blank" :> Str(""))

ConfigDataMarkerOnly ==
    SMap("kubectl.kubernetes.io/last-applied-configuration" :> Str("{}"))

SecretMeta == SMap([name |-> Str("default-token-x7k2p"), uid |-> Str("a174f3d1")])

SecretData == SMap([token |-> Str("c2VjcmV0"), blank |-> Str("")])

Workload(kind, metadata, spec, status) ==
    KubernetesObject("apps/v1", kind, metadata, spec, status, Nil, Nil, "")

Core(kind, metadata, spec, status) ==
    KubernetesObject("v1", kind, metadata, spec, status, Nil, Nil, "")

Deployments ==
    {Workload("Deployment", m, s, st) :
        m \in {MetaFull, MetaRuntimeOnly},
        s \in {Nil, WorkloadSpecNoTemplate, WorkloadSpecHollow,
               WorkloadSpec(PodSpecFull), WorkloadSpec(PodSpecToken)},
        st \in {Nil, StatusFull}}

OtherWorkloads ==
    {Workload(k, MetaFull, s, StatusFull) :
        k \in {"StatefulSet", "DaemonSet"},
        s \in {Nil, WorkloadSpecHollow, WorkloadSpec(PodSpecFull)}}

Services ==
    {Core("Service", m, s, st) :
        m \in {MetaFull, Nil},
        s \in {Nil, ServiceSpecFull, ServiceSpecTcpOnly, ServiceSpecScenario},
        st \in {SMap(EmptyMap), StatusFull}}

Pods ==
    {Core("Pod", m, s, StatusFull) :
        m \in {Nil, MetaFull, MetaNamed, MetaHashNoName, MetaHashEmpty, MetaHashNotString,
               MetaNoHash, MetaHashOnly, MetaHashOtherName},
        s \in {Nil, SMap(PodSpecFull), SMap(PodSpecToken)}}
    \cup {Core("Pod", MetaFull, SMap(s), Nil) : s \in {PodSpecClean, PodSpecRuntimeOnly}}

ConfigMaps ==
    {KubernetesObject("v1", "ConfigMap", m, Nil, Nil, d, Nil, "") :
        m \in {MetaFull, MetaEmpty},
        d \in {Nil, SMap(EmptyMap), ConfigData, ConfigDataMarkerOnly}}

Secrets ==
    {KubernetesObject("v1", "Secret", SecretMeta, Nil, Nil, d, sd, ty) :
        d \in {Nil, SecretData},
        sd \in {SMap(EmptyMap), SecretData},
        ty \in {"kubernetes.io/service-account-token", "Opaque"}}

\* kinds without a rule set of their own
Others ==
    {KubernetesObject("networking.k8s.io/v1", "Ingress", m, s, st, Nil, Nil, "") :
        m \in {MetaFull, MetaRuntimeOnly, Nil},
        s \in {Nil, GenericSpec},
        st \in {SMap(EmptyMap), StatusFull}}
    \cup {Workload(kind, MetaFull, WorkloadSpec(PodSpecFull), StatusFull) :
             kind \in {"deployment", "ReplicaSet", "Generic"}}

\* documents built from string-keyed mappings
StringKeyedDocs ==
    Deployments \cup OtherWorkloads \cup Services \cup Pods \cup ConfigMaps
    \cup Secrets \cup Others

\* the same documents as the stream decoder yields them
DecodedDocs == {Decoded(d) : d \in StringKeyedDocs}

Docs == StringKeyedDocs \cup DecodedDocs

\* CleanupOptions: the metadata switches and the explicit lists
MetadataOptions ==
    {[RemoveManagedFields |-> TRUE, CleanupFinalizers |-> TRUE, RemoveNamespace |-> TRUE,
      RemoveLabels |-> {}, RemoveAnnotations |-> {}],
     [RemoveManagedFields |-> FALSE, CleanupFinalizers |-> FALSE, RemoveNamespace |-> FALSE,
      RemoveLabels |-> {"app"}, RemoveAnnotations |-> {"note"}]}

CleanupOptions ==
    {[RemoveManagedFields |-> mo.RemoveManagedFields,
      RemoveStatus |-> rs,
      RemoveNamespace |-> mo.RemoveNamespace,
      RemoveClusterName |-> FALSE,
      RemoveLabels |-> mo.RemoveLabels,
      RemoveAnnotations |-> mo.RemoveAnnotations,
      RemoveEmpty |-> re,
      CleanupFinalizers |-> mo.CleanupFinalizers,
      RevertToDeployment |-> rv,
      PreserveResourceState |-> pr,
      ResourceStateMode |-> mode] :
        mo \in MetadataOptions, rs \in BOOLEAN, re \in BOOLEAN, rv \in BOOLEAN,
        pr \in BOOLEAN, mode \in {"Desired", "Runtime"}}

\* the options main sets
DefaultOptions ==
    [RemoveManagedFields |-> TRUE, RemoveStatus |-> TRUE, RemoveNamespace |-> TRUE,
     RemoveClusterName |-> FALSE, RemoveLabels |-> {}, RemoveAnnotations |-> {},
     RemoveEmpty |-> TRUE, CleanupFinalizers |-> TRUE, RevertToDeployment |-> TRUE,
     PreserveResourceState |-> FALSE, ResourceStateMode |-> "Desired"]

----------------------------------------------------------------------------
(* cleanupManifest: the documents of the stream, one at a time *)

\* the longest stream of several documents
MaxStream == 2

\* what decoder.Decode meets next: a document, or text that does not decode
Item(d) == [bad |-> FALSE, doc |-> d]

BadItem == [bad |-> TRUE]

NotAResource == KubernetesObject("", "", MetaNamed, Nil, Nil, Nil, Nil, "")

NoKind == KubernetesObject("v1", "", MetaNamed, Nil, Nil, Nil, Nil, "")

NoAPIVersion == KubernetesObject("", "Service", MetaNamed, ServiceSpecScenario, Nil, Nil, Nil, "")

StreamItems ==
    {BadItem, Item(NotAResource), Item(NoKind), Item(NoAPIVersion),
     Item(Decoded(Core("Service", MetaNamed, ServiceSpecScenario, Nil))),
     Item(Decoded(Workload("Deployment", MetaRuntimeOnly, WorkloadSpecNoTemplate, StatusFull)))}

RECURSIVE StreamsOf(_)
\* the streams of exactly n items
StreamsOf(n) ==
    IF n = 0 THEN {<<>>}
    ELSE {Append(st, it) : st \in StreamsOf(n - 1), it \in StreamItems}

Streams == UNION {StreamsOf(n) : n \in 0..MaxStream}

NoObject == KubernetesObject("", "", Nil, Nil, Nil, Nil, Nil, "")

Running == [state |-> "running", doc |-> 0]

Init ==
    /\ \/ /\ input \in {<<Item(d)>> : d \in Docs}
          /\ options \in CleanupOptions
          /\ failAt = 0
       \/ /\ input \in Streams
          /\ options = DefaultOptions
          /\ failAt \in 0..MaxStream
    /\ documentCount = 0
    /\ obj = NoObject
    /\ orig = NoObject
    /\ pc = "decode"
    /\ phase = <<>>
    /\ reverted = FALSE
    /\ output = <<>>
    /\ result = Running

\* decoder.Decode returns io.EOF
DecodeEOF ==
    /\ pc = "decode"
    /\ documentCount = Len(input)
    /\ pc' = "done"
    /\ result' = [state |-> "ok", doc |-> documentCount]
    /\ UNCHANGED <<input, options, failAt, documentCount, obj, orig, phase, reverted, output>>

\* the decode error counted from zero
DecodeErrorFromZero ==
    /\ pc = "decode"
    /\ documentCount < Len(input)
    /\ input[documentCount + 1].bad
    /\ pc' = "done"
    /\ result' = [state |-> "decodeError", doc |-> documentCount]
    /\ UNCHANGED <<input, options, failAt, documentCount, obj, orig, phase, reverted, output>>

\* decoder.Decode returns another error
DecodeError ==
    /\ pc = "decode"
    /\ documentCount < Len(input)
    /\ input[documentCount + 1].bad
    /\ pc' = "done"
    /\ result' = [state |-> "decodeError", doc |-> documentCount + 1]
    /\ UNCHANGED <<input, options, failAt, documentCount, obj, orig, phase, reverted, output>>

\* a document without kind or without apiVersion is passed over
DecodeSkip ==
    /\ pc = "decode"
    /\ documentCount < Len(input)
    /\ ~input[documentCount + 1].bad
    /\ LET d == input[documentCount + 1].doc
       IN  /\ d.kind = "" \/ d.apiVersion = ""
           /\ obj' = d
           /\ orig' = d
    /\ documentCount' = documentCount + 1
    /\ phase' = <<>>
    /\ reverted' = FALSE
    /\ UNCHANGED <<input, options, failAt, pc, output, result>>

\* every decoded document goes to cleanupKubernetesObject, resource or not
DecodeObjectUnchecked ==
    /\ pc = "decode"
    /\ documentCount < Len(input)
    /\ ~input[documentCount + 1].bad
    /\ LET d == input[documentCount + 1].doc
       IN  /\ obj' = d
           /\ orig' = d
    /\ documentCount' = documentCount + 1
    /\ pc' = "clean"
    /\ phase' = <<>>
    /\ reverted' = FALSE
    /\ UNCHANGED <<input, options, failAt, output, result>>

\* a document with kind and apiVersion goes to cleanupKubernetesObject
DecodeObject ==
    /\ pc = "decode"
    /\ documentCount < Len(input)
    /\ ~input[documentCount + 1].bad
    /\ LET d == input[documentCount + 1].doc
       IN  /\ d.kind # "" /\ d.apiVersion # ""
           /\ obj' = d
           /\ orig' = d
    /\ documentCount' = documentCount + 1
    /\ pc' = "clean"
    /\ phase' = <<>>
    /\ reverted' = FALSE
    /\ UNCHANGED <<input, options, failAt, output, result>>

\* PodCleaner.Clean tries the reconstruction before anything else
Revert ==
    /\ pc = "clean"
    /\ GetCleaner(obj.kind) = "Pod"
    /\ options.RevertToDeployment
    /\ LET r == revertPodToDeployment(obj)
       IN  IF r.panic
           THEN /\ pc' = "done"
                /\ result' = [state |-> "panic", doc |-> documentCount]
                /\ UNCHANGED <<obj, reverted, phase>>
           ELSE /\ pc' = "generic"
                /\ obj' = r.obj
                /\ reverted' = r.ok
                /\ phase' = Append(phase, "revert")
                /\ UNCHANGED result
    /\ UNCHANGED <<input, options, failAt, documentCount, orig, output>>

\* the generic cleaner, first step of every cleaner but the reconstructing Pod cleaner
GenericClean ==
    /\ \/ pc = "generic"
       \/ pc = "clean" /\ ~(GetCleaner(obj.kind) = "Pod" /\ options.RevertToDeployment)
    /\ obj' = GenericObjectCleaner_Clean(obj, options)
    /\ pc' = IF GetCleaner(orig.kind) = "Generic" THEN "encode" ELSE "specific"
    /\ phase' = Append(phase, "generic")
    /\ UNCHANGED <<input, options, failAt, documentCount, orig, reverted, output, result>>

\* the rules of the cleaner with the closing prune left out
KindRulesUnpruned ==
    /\ pc = "specific"
    /\ obj' = IF reverted THEN RevertedPodRules(obj, options)
              ELSE kindRules(GetCleaner(orig.kind), obj, options)
    /\ pc' = "encode"
    /\ phase' = Append(phase, "specific")
    /\ UNCHANGED <<input, options, failAt, documentCount, orig, reverted, output, result>>

\* the rules of the cleaner turning a rebuilt Deployment into a Pod again
KindRulesBackToPod ==
    /\ pc = "specific"
    /\ obj' = IF reverted THEN [RevertedPodRules(obj, options) EXCEPT !.kind = "Pod"]
              ELSE kindRules(GetCleaner(orig.kind), obj, options)
    /\ pc' = "prune"
    /\ phase' = Append(phase, "specific")
    /\ UNCHANGED <<input, options, failAt, documentCount, orig, reverted, output, result>>

\* the rules of the cleaner that was selected for the document
KindRules ==
    /\ pc = "specific"
    /\ obj' = IF reverted THEN RevertedPodRules(obj, options)
              ELSE kindRules(GetCleaner(orig.kind), obj, options)
    /\ pc' = "prune"
    /\ phase' = Append(phase, "specific")
    /\ UNCHANGED <<input, options, failAt, documentCount, orig, reverted, output, result>>

\* the closing prune of the top-level fields
FinalCleanup ==
    /\ pc = "prune"
    /\ obj' = finalCleanup(obj, options)
    /\ pc' = "encode"
    /\ phase' = Append(phase, "prune")
    /\ UNCHANGED <<input, options, failAt, documentCount, orig, reverted, output, result>>

\* the cleaned object written in front of what was written before
EncodeInFront ==
    /\ pc = "encode"
    /\ failAt # documentCount
    /\ output' = <<obj>> \o output
    /\ pc' = "decode"
    /\ UNCHANGED <<input, options, failAt, documentCount, obj, orig, phase, reverted, result>>

\* encoder.Encode writes the cleaned object
Encode ==
    /\ pc = "encode"
    /\ failAt # documentCount
    /\ output' = Append(output, obj)
    /\ pc' = "decode"
    /\ UNCHANGED <<input, options, failAt, documentCount, obj, orig, phase, reverted, result>>

\* encoder.Encode fails and what was written before is taken back
EncodeErrorRollingBack ==
    /\ pc = "encode"
    /\ failAt = documentCount
    /\ pc' = "done"
    /\ result' = [state |-> "encodeError", doc |-> documentCount]
    /\ output' = <<>>
    /\ UNCHANGED <<input, options, failAt, documentCount, obj, orig, phase, reverted>>

\* encoder.Encode fails
EncodeError ==
    /\ pc = "encode"
    /\ failAt = documentCount
    /\ pc' = "done"
    /\ result' = [state |-> "encodeError", doc |-> documentCount]
    /\ UNCHANGED <<input, options, failAt, documentCount, obj, orig, phase, reverted, output>>

Next ==
    \/ DecodeEOF
    \/ DecodeError
    \/ DecodeSkip
    \/ DecodeObject
    \/ Revert
    \/ GenericClean
    \/ KindRules
    \/ FinalCleanup
    \/ Encode
    \/ EncodeError

Spec == Init /\ [][Next]_vars

----------------------------------------------------------------------------
(* Properties *)

\* the document has been through its rule set and is about to be written
Cleaned == pc = "encode"

\* a mapping, however it is keyed
IsMap(v) == v.t \in {"smap", "imap"}

\* the fields of a mapping; none for any other value
Fields(v) == IF IsMap(v) THEN v.m ELSE EmptyMap

\* the entries of a sequence; none for any other value
Entries(v) == IF IsList(v) THEN {v.q[i] : i \in 1..Len(v.q)} ELSE {}

RECURSIVE HasEmpty(_)
\* the value is or holds an empty mapping or an empty sequence
HasEmpty(v) ==
    CASE IsMap(v) -> DOMAIN v.m = {} \/ \E k \in DOMAIN v.m : HasEmpty(v.m[k])
      [] IsList(v) -> Len(v.q) = 0 \/ \E i \in 1..Len(v.q) : HasEmpty(v.q[i])
      [] OTHER -> FALSE

RECURSIVE SubValues(_)
\* the value and every value nested in it
SubValues(v) ==
    {v} \cup (CASE IsMap(v) -> UNION {SubValues(v.m[k]) : k \in DOMAIN v.m}
                [] IsList(v) -> UNION {SubValues(v.q[i]) : i \in 1..Len(v.q)}
                [] OTHER -> {})

ClusterAssigned ==
    {"creationTimestamp", "resourceVersion", "selfLink", "uid", "ownerReferences"}

\* C1: the top-level metadata of a cleaned document, and of every document
\* written, holds none of creationTimestamp, resourceVersion, selfLink, uid,
\* ownerReferences, whatever the kind and the options
C1_MetadataStripped ==
    /\ Cleaned => DOMAIN Fields(obj.metadata) \cap ClusterAssigned = {}
    /\ \A i \in 1..Len(output) :
          DOMAIN Fields(output[i].metadata) \cap ClusterAssigned = {}

\* a document that carried all five fields was cleaned and keeps its name
C1_Witness ==
    /\ Cleaned
    /\ ClusterAssigned \subseteq DOMAIN Fields(orig.metadata)
    /\ "name" \in DOMAIN Fields(obj.metadata)

\* C2: with remove-empty set, no mapping and no sequence anywhere in the
\* metadata, spec, status, data or stringData of a cleaned document is empty
C2_NoEmptyAfterClean ==
    Cleaned /\ options.RemoveEmpty => \A f \in TopLevelMaps : ~HasEmpty(obj[f])

\* C3: running the selected rule set on the cleaned document again, with the
\* same options, yields the same document
C3_Idempotent ==
    Cleaned => cleanupKubernetesObject(obj, options) = [panic |-> FALSE, obj |-> obj]

\* C4: pruning a value twice gives what pruning it once gives, for every value
\* in a document before, during and after its cleaning
C4_PrunerIdempotent ==
    \A f \in TopLevelMaps : \A v \in SubValues(obj[f]) :
        removeEmptyFields(removeEmptyFields(v)) = removeEmptyFields(v)

\* a field about to be pruned that the pruner changes without removing it, and
\* that holds an empty string
C4_Witness ==
    /\ pc = "prune"
    /\ \E f \in TopLevelMaps :
          /\ removeEmptyFields(obj[f]) # obj[f]
          /\ removeEmptyFields(obj[f]) # Nil
          /\ \E v \in SubValues(obj[f]) : v = Str("")

\* the pod spec of a Pod, the template's pod spec of a workload
PodSpecOf(o) ==
    IF o.kind = "Pod" THEN o.spec
    ELSE Get(Fields(Get(Fields(o.spec), "template")), "spec")

VolumeNames(podSpec) ==
    {Get(Fields(volume), "name") : volume \in Entries(Get(Fields(podSpec), "volumes"))}

MountNames(podSpec) ==
    UNION {{Get(Fields(vm), "name") : vm \in Entries(Get(Fields(c), "volumeMounts"))} :
             c \in Entries(Get(Fields(podSpec), "containers"))
                   \cup Entries(Get(Fields(podSpec), "initContainers"))}

MountsConsistent(o) == MountNames(PodSpecOf(o)) \subseteq VolumeNames(PodSpecOf(o))

\* C5: when every mount of the input names a volume of its pod spec, every
\* mount of the cleaned document names a volume that is still in the pod spec
C5_MountsNameVolumes ==
    Cleaned /\ MountsConsistent(orig) => MountsConsistent(obj)

\* a volume was taken out and mounts of other volumes are left
C5_Witness ==
    /\ Cleaned
    /\ MountsConsistent(orig)
    /\ VolumeNames(PodSpecOf(obj)) # VolumeNames(PodSpecOf(orig))
    /\ MountNames(PodSpecOf(obj)) # {}
    /\ MountNames(PodSpecOf(obj)) # MountNames(PodSpecOf(orig))

\* C6: a Deployment cleaned with preserve-resource-state has no status in
\* Desired mode and no spec.replicas in Runtime mode, so never both
C6_StateModeExclusive ==
    Cleaned /\ orig.kind = "Deployment" /\ options.PreserveResourceState =>
        /\ options.ResourceStateMode = "Desired" => obj.status = Nil
        /\ options.ResourceStateMode = "Runtime" => "replicas" \notin DOMAIN Fields(obj.spec)
        /\ ~(obj.status # Nil /\ "replicas" \in DOMAIN Fields(obj.spec))

\* the Deployment had both; in Runtime mode its status is what is left
C6_Witness ==
    /\ Cleaned
    /\ orig.kind = "Deployment"
    /\ options.PreserveResourceState
    /\ options.ResourceStateMode = "Runtime"
    /\ orig.status # Nil
    /\ "replicas" \in DOMAIN Fields(orig.spec)
    /\ obj.status # Nil
    /\ obj.spec # Nil

\* C7: a Deployment with metadata.uid, metadata.resourceVersion and
\* spec.replicas, cleaned under the default options, has no uid, no
\* resourceVersion, no status and no spec.replicas
C7_ScenarioA ==
    /\ Cleaned
    /\ orig.kind = "Deployment"
    /\ options = DefaultOptions
    /\ {"uid", "resourceVersion"} \subseteq DOMAIN Fields(orig.metadata)
    /\ "replicas" \in DOMAIN Fields(orig.spec)
    => /\ DOMAIN Fields(obj.metadata) \cap {"uid", "resourceVersion"} = {}
       /\ obj.status = Nil
       /\ "replicas" \notin DOMAIN Fields(obj.spec)

\* the labels of the document carry a non-empty string pod-template-hash
HasTemplateHash(o) ==
    LET labels == Fields(Get(Fields(o.metadata), "labels"))
    IN  /\ "pod-template-hash" \in DOMAIN labels
        /\ IsStr(labels["pod-template-hash"])
        /\ labels["pod-template-hash"].s # ""

\* C8: a Pod with a non-empty pod-template-hash label, cleaned with revert
\* enabled, comes out as a Deployment whose spec.template.spec is the original
\* pod spec and whose spec.selector.matchLabels has no pod-template-hash
C8_ScenarioB ==
    /\ Cleaned
    /\ orig.kind = "Pod"
    /\ options.RevertToDeployment
    /\ HasTemplateHash(orig)
    => /\ obj.kind = "Deployment"
       /\ PodSpecOf(obj) = orig.spec
       /\ "pod-template-hash" \notin
              DOMAIN Fields(Get(Fields(Get(Fields(obj.spec), "selector")), "matchLabels"))

\* the reconstruction has just been tried on the decoded document
RevertTried == pc = "generic" /\ phase = <<"revert">>

\* the guard of the reconstructor fails: no Pod, no metadata, no labels, or a
\* pod-template-hash that is missing, empty or no string
GuardFails(o) ==
    \/ o.kind # "Pod"
    \/ o.metadata = Nil
    \/ "labels" \notin DOMAIN Fields(o.metadata)
    \/ LET labels == Fields(o.metadata.m["labels"])
       IN  \/ "pod-template-hash" \notin DOMAIN labels
           \/ ~IsStr(labels["pod-template-hash"])
           \/ labels["pod-template-hash"].s = ""

\* C9: when the guard fails the reconstructor returns false and changes no
\* field of the object: the Pod it was tried on is still the decoded Pod, and
\* on any other object at hand the function is the identity
C9_GuardFailsNoChange ==
    /\ RevertTried /\ GuardFails(orig) => ~reverted /\ obj = orig /\ obj.kind = "Pod"
    /\ GuardFails(obj) =>
          revertPodToDeployment(obj) = [ok |-> FALSE, panic |-> FALSE, obj |-> obj]

\* the reconstruction was tried on a Pod whose pod-template-hash is empty
C9_Witness ==
    /\ RevertTried
    /\ GuardFails(orig)
    /\ "pod-template-hash" \in DOMAIN Fields(Get(Fields(orig.metadata), "labels"))
    /\ orig.status # Nil

\* the port entry loses a protocol that is TCP and keeps everything else
WithoutTCP(port) ==
    IF /\ "protocol" \in DOMAIN Fields(port)
       /\ IsStr(Fields(port)["protocol"])
       /\ ToUpper(Fields(port)["protocol"].s) = "TCP"
    THEN IMap(Del(Fields(port), "protocol"))
    ELSE Generic(port)

\* C10: in a Service cleaned under the default options no port entry has the
\* protocol TCP, and every port entry of the input is there with all its other
\* fields unless nothing but the protocol was in it
C10_ScenarioD ==
    Cleaned /\ orig.kind = "Service" /\ options = DefaultOptions =>
        LET before == Entries(Get(Fields(orig.spec), "ports"))
            after == Entries(Get(Fields(obj.spec), "ports"))
        IN  /\ \A port \in after : Get(Fields(port), "protocol") # Str("TCP")
            /\ {WithoutTCP(port) : port \in before} \ {IMap(EmptyMap)}
                  = {Generic(port) : port \in after}

LastApplied == "kubectl.kubernetes.io/last-applied-configuration"

\* the content of the data entry starts with the last-applied marker
CarriesMarker(v) == IsStr(v) /\ HasPrefix(v.s, LastApplied)

\* C11: a cleaned ConfigMap has no data entry whose content carries the
\* last-applied marker, and has every other data entry of the input unchanged
C11_ScenarioE ==
    Cleaned /\ orig.kind = "ConfigMap" =>
        \A key \in DOMAIN Fields(orig.data) :
            IF CarriesMarker(orig.data.m[key])
            THEN key \notin DOMAIN Fields(obj.data)
            ELSE key = LastApplied \/ Get(Fields(obj.data), key) = orig.data.m[key]

\* the documents decoded so far that are through: all of them between two
\* documents and after a failed decode, all but the last otherwise
Through ==
    IF pc = "decode" \/ result.state \in {"ok", "decodeError"}
    THEN documentCount ELSE documentCount - 1

\* the resources among the first n documents of the stream, in stream order
ResourcesIn(n) ==
    SelectSeq(SubSeq(input, 1, n),
              LAMBDA it : ~it.bad /\ it.doc.kind # "" /\ it.doc.apiVersion # "")

\* C12: documents are handled one at a time and in order: the document in
\* hand is the last one decoded, and the output is exactly the cleaned forms
\* of the resources among the documents that are through, in stream order
C12_OneAtATimeInOrder ==
    /\ documentCount <= Len(input)
    /\ pc \in {"clean", "generic", "specific", "prune", "encode"} =>
          orig = input[documentCount].doc
    /\ LET through == ResourcesIn(Through)
       IN  output = [i \in 1..Len(through) |->
                        cleanupKubernetesObject(through[i].doc, options).obj]

\* two different resources were written, the second after the first
C12_Witness ==
    /\ Len(output) = 2
    /\ output[1] # output[2]
    /\ input[1].doc.kind = "Deployment"
    /\ input[2].doc.kind = "Service"

\* neither kind nor apiVersion: no resource
NoResource(o) == o.kind = "" /\ o.apiVersion = ""

\* C13: a decoded document with neither kind nor apiVersion never reaches a
\* rule set, is not changed and is not written, wherever it is in the stream
C13_NoResourceSkipped ==
    /\ NoResource(orig) =>
          /\ pc \in {"decode", "done"}
          /\ phase = <<>>
          /\ obj = orig
    /\ \A i \in 1..Len(output) : ~NoResource(output[i])
    /\ Len(output) <= Len(ResourcesIn(documentCount))

\* the second document of the stream was no resource and was passed over
\* after a resource had been written
C13_Witness ==
    /\ documentCount = 2
    /\ NoResource(orig)
    /\ orig.metadata # Nil
    /\ Len(output) = 1

\* C14: a decode failure at the k-th document ends the run with that 1-based
\* index, an encode failure ends it with the index of the document in hand;
\* after either nothing more is decoded, cleaned or written
C14_FailureAborts ==
    /\ result.state = "decodeError" =>
          /\ pc = "done"
          /\ result.doc = documentCount + 1
          /\ input[result.doc].bad
          /\ Len(output) = Len(ResourcesIn(result.doc - 1))
    /\ result.state = "encodeError" =>
          /\ pc = "done"
          /\ result.doc = documentCount
          /\ Len(output) = Len(ResourcesIn(result.doc - 1))
    /\ pc = "done" => ~ENABLED Next

\* the first document failed to decode: the resource after it was never read
C14_Witness ==
    /\ result = [state |-> "decodeError", doc |-> 1]
    /\ Len(input) = 2
    /\ ~input[2].bad
    /\ input[2].doc.kind = "Service"
    /\ output = <<>>

\* C15: the registry answers every non-empty kind with a registered rule set,
\* the kind's own for the seven specific kinds and the generic one for every
\* other; a document of another kind is cleaned by the generic rule set alone
C15_DispatchTotal ==
    /\ \A kind \in (SpecificKinds \cup {orig.kind, "Generic", "deployment", "CronJob"}) \ {""} :
          GetCleaner(kind) = IF kind \in SpecificKinds THEN kind ELSE "Generic"
    /\ Cleaned /\ orig.kind \notin SpecificKinds =>
          obj = GenericObjectCleaner_Clean(orig, options)

\* a document of a kind that differs from a specific kind in case only was
\* cleaned and still has the pod spec it came with
C15_Witness ==
    /\ Cleaned
    /\ orig.kind = "deployment"
    /\ obj # orig
    /\ obj.spec = orig.spec
    /\ "nodeName" \in DOMAIN Fields(PodSpecOf(obj))

\* an entry with content: not absent, not the empty string, nothing empty in it
NonEmptyEntry(v) == v # Nil /\ v # Str("") /\ ~HasEmpty(v)

\* o is the Secret of the input with its type and with every non-empty entry
\* of data and stringData as it was
SecretKept(o) ==
    /\ o.kind = "Secret"
    /\ o.type = orig.type
    /\ \A f \in {"data", "stringData"} : \A key \in DOMAIN Fields(orig[f]) :
          NonEmptyEntry(orig[f].m[key]) => Get(Fields(o[f]), key) = orig[f].m[key]

\* C16: a cleaned Secret is still a Secret of the same type with every
\* non-empty data and stringData entry unchanged, and it is written, under
\* all options and also when it is a default service-account token
C16_SecretKept ==
    orig.kind = "Secret" =>
        /\ Cleaned => SecretKept(obj)
        /\ pc \in {"decode", "done"} => Len(output) = 1 /\ SecretKept(output[1])

\* a default service-account token was written with its token
C16_Witness ==
    /\ orig.kind = "Secret"
    /\ secretNoted(orig)
    /\ Len(output) = 1
    /\ "token" \in DOMAIN Fields(output[1].data)
    /\ output[1].stringData = Nil
    /\ orig.stringData # Nil

\* paths as their segments: to top-level fields, to fields of the struct that
\* are no mappings, to keys that are there, through keys that are missing and
\* through values that are no mappings
TestPaths ==
    {<<"status">>, <<"spec">>, <<"type">>, <<"kind">>, <<"apiVersion", "x">>,
     <<"labels", "app">>, <<"spec", "replicas">>, <<"spec", "absent">>,
     <<"metadata", "generation">>, <<"metadata", "labels", "app">>,
     <<"data", "key">>, <<"stringData", "token">>, <<"spec", "replicas", "x">>,
     <<"spec", "absent", "x">>, <<"metadata", "absent", "x">>,
     <<"spec", "template", "spec", "nodeName">>,
     <<"spec", "template", "spec", "containers", "x">>}

RECURSIVE Join(_)
\* the segments joined by dots
Join(parts) ==
    IF Len(parts) = 1 THEN parts[1] ELSE parts[1] \o "." \o Join(Tail(parts))

RECURSIVE Walkable(_, _)
\* every segment but the last is a key of the document at hand and leads to a
\* nested document of the kind the resolver walks, a string-keyed one
Walkable(v, parts) ==
    \/ Len(parts) = 1
    \/ /\ parts[1] \in DOMAIN v.m
       /\ IsSMap(v.m[parts[1]])
       /\ Walkable(v.m[parts[1]], Tail(parts))

RECURSIVE Without(_, _)
\* the document with the key of the last segment taken out of the document
\* that the segments before it lead to, and nothing else changed
Without(v, parts) ==
    IF Len(parts) = 1
    THEN SMap([key \in DOMAIN v.m \ {parts[1]} |-> v.m[key]])
    ELSE SMap([key \in DOMAIN v.m |->
                 IF key = parts[1] THEN Without(v.m[key], Tail(parts)) ELSE v.m[key]])

\* what the path resolver is to leave of o, with the one-segment path "type"
\* either passed over or resetting the type
Resolved(o, parts, resetsType) ==
    IF Len(parts) = 1
    THEN IF parts[1] \in TopLevelMaps THEN [o EXCEPT ![parts[1]] = Nil]
         ELSE IF resetsType /\ parts[1] = "type" THEN [o EXCEPT !.type = ""]
         ELSE o
    ELSE IF \/ parts[1] \notin TopLevelMaps
            \/ o[parts[1]] = Nil
            \/ ~Walkable(o[parts[1]], Tail(parts))
         THEN o
         ELSE [o EXCEPT ![parts[1]] = Without(o[parts[1]], Tail(parts))]

TableOf(kind) ==
    IF kind \in DOMAIN resourceStateFields THEN resourceStateFields[kind] ELSE EmptyMap

\* the table paths whose flag is opposite to the mode: runtime paths in
\* Desired mode, desired paths in Runtime mode
Opposite(kind, mode) ==
    {path \in DOMAIN TableOf(kind) :
        \/ mode = "Desired" /\ ~TableOf(kind)[path]
        \/ mode = "Runtime" /\ TableOf(kind)[path]}

\* what is at a table path of one or two segments; nil when nothing is
At(o, path) ==
    LET parts == Split(path)
    IN  IF Len(parts) = 1 THEN o[parts[1]] ELSE Get(Fields(o[parts[1]]), parts[2])

\* after differs from before at the given paths at most
SameBut(before, after, paths) ==
    /\ after.kind = before.kind
    /\ after.apiVersion = before.apiVersion
    /\ after.type = before.type
    /\ \A f \in TopLevelMaps :
          \/ f \in paths
          \/ /\ (after[f] = Nil) = (before[f] = Nil)
             /\ DOMAIN Fields(after[f]) \subseteq DOMAIN Fields(before[f])
             /\ \A key \in DOMAIN Fields(before[f]) :
                   \/ f \o "." \o key \in paths
                   \/ Get(Fields(after[f]), key) = before[f].m[key]

\* the object is about to enter the generic rule set
AtGate == pc \in {"clean", "generic"}

\* C18: with preserve-resource-state the state gate deletes the table paths of
\* the kind whose flag is opposite to the mode, leaves every other table path
\* and everything else as it is; without it, or for a kind that has no table,
\* the gate changes nothing
C18_GateExact ==
    AtGate =>
        LET gated == stateGate(obj, options)
            queued == IF options.PreserveResourceState
                      THEN Opposite(obj.kind, options.ResourceStateMode) ELSE {}
        IN  /\ \A path \in queued : At(gated, path) = Nil
            /\ \A path \in DOMAIN TableOf(obj.kind) \ queued :
                  At(gated, path) = At(obj, path)
            /\ SameBut(obj, gated, queued)
            /\ queued = {} => gated = obj

\* a Service in Runtime mode: ports and selector go, the cluster address stays
C18_Witness ==
    /\ AtGate
    /\ obj.kind = "Service"
    /\ options.PreserveResourceState
    /\ options.ResourceStateMode = "Runtime"
    /\ At(obj, "spec.ports") # Nil
    /\ At(obj, "spec.clusterIP") # Nil
    /\ At(stateGate(obj, options), "spec.ports") = Nil
    /\ At(stateGate(obj, options), "spec.clusterIP") # Nil

\* the table paths of the kind that are flagged as runtime state
RuntimePaths(kind) == {path \in DOMAIN TableOf(kind) : ~TableOf(kind)[path]}

\* C19: in Runtime mode with preserve-resource-state every path that the
\* table of the kind flags as runtime and that the input has is in the
\* cleaned document too
C19_RuntimeKept ==
    Cleaned /\ options.PreserveResourceState /\ options.ResourceStateMode = "Runtime" =>
        \A path \in RuntimePaths(orig.kind) :
            NonEmptyEntry(At(orig, path)) => At(obj, path) # Nil

\* the step has been taken on the document in hand
Done(step) == \E i \in 1..Len(phase) : phase[i] = step

\* C20: a kind-specific rule set changes nothing of the document before the
\* generic rule set has run, and a document cleaned by one has been through
\* generic, kind-specific and prune in this order, the Pod path with revert
\* included
C20_GenericFirst ==
    /\ ~Done("generic") => obj = orig
    /\ Cleaned /\ orig.kind \in SpecificKinds =>
          SelectSeq(phase, LAMBDA step : step # "revert")
              = <<"generic", "specific", "prune">>

\* C20 as the code has it: the Pod rule set with revert enabled tries the
\* reconstruction first, which rebuilds the object when its guard holds; then,
\* as in every kind-specific rule set, generic, kind-specific and prune follow
\* in this order, and nothing else changes the document before generic
C20_GenericFirstAfterRevert ==
    /\ ~Done("generic") =>
          \/ obj = orig
          \/ /\ phase = <<"revert">>
             /\ reverted
             /\ obj = revertPodToDeployment(orig).obj
    /\ Done("revert") => orig.kind = "Pod" /\ options.RevertToDeployment
    /\ Cleaned /\ orig.kind \in SpecificKinds =>
          phase = IF orig.kind = "Pod" /\ options.RevertToDeployment
                  THEN <<"revert", "generic", "specific", "prune">>
                  ELSE <<"generic", "specific", "prune">>

\* a Pod rebuilt as a Deployment has been through all four steps
C20_Witness ==
    /\ Cleaned
    /\ reverted
    /\ obj.kind = "Deployment"
    /\ phase = <<"revert", "generic", "specific", "prune">>

\* C21: while a document is cleaned its kind changes only from Pod to
\* Deployment, in the one attempt at reconstruction, with revert enabled and a
\* non-empty template hash among its labels; the attempt is made once at most;
\* a document that is no Pod keeps its kind and apiVersion
C21_KindChangesOnce ==
    /\ [](/\ Len(SelectSeq(phase, LAMBDA step : step = "revert")) <= 1
          /\ obj.kind # orig.kind =>
                /\ orig.kind = "Pod" /\ obj.kind = "Deployment"
                /\ reverted /\ options.RevertToDeployment /\ HasTemplateHash(orig)
          /\ orig.kind # "Pod" => obj.kind = orig.kind /\ obj.apiVersion = orig.apiVersion)
    /\ [][documentCount' = documentCount /\ obj'.kind # obj.kind =>
             /\ pc = "clean" /\ pc' = "generic"
             /\ obj.kind = "Pod" /\ obj'.kind = "Deployment"]_vars

\* a Pod of v1 came out as a Deployment of apps/v1 after one attempt
C21_Witness ==
    /\ Cleaned
    /\ orig.kind = "Pod" /\ orig.apiVersion = "v1"
    /\ obj.kind = "Deployment" /\ obj.apiVersion = "apps/v1"
    /\ Len(SelectSeq(phase, LAMBDA step : step = "revert")) = 1

\* the labels of the Pod of the input, but for the template hash
OtherLabels ==
    LET labels == Fields(Get(Fields(orig.metadata), "labels"))
    IN  [key \in DOMAIN labels \ {"pod-template-hash"} |-> labels[key]]

\* C22: the Deployment that the reconstruction has just built has equal
\* spec.selector.matchLabels and spec.template.metadata.labels; they are the
\* labels of the Pod but for pod-template-hash, or the one label
\* app=<name of the Deployment> when no other label is left; spec.replicas is 1
C22_ReconstructedLabels ==
    RevertTried /\ reverted =>
        LET matchLabels == Get(Fields(Get(Fields(obj.spec), "selector")), "matchLabels")
            templateLabels ==
                Get(Fields(Get(Fields(Get(Fields(obj.spec), "template")), "metadata")),
                    "labels")
        IN  /\ IsMap(matchLabels)
            /\ matchLabels = templateLabels
            /\ DOMAIN matchLabels.m # {}
            /\ matchLabels.m = IF DOMAIN OtherLabels = {}
                               THEN [app |-> obj.metadata.m["name"]] ELSE OtherLabels
            /\ Get(Fields(obj.spec), "replicas") = Num(1)

\* a Pod with no label but the template hash was rebuilt with the one label app
C22_Witness ==
    /\ RevertTried
    /\ reverted
    /\ DOMAIN OtherLabels = {}
    /\ obj.spec.m["selector"].m["matchLabels"] = SMap([app |-> Str("myapp")])

\* the generic rule set has just run on the document in hand
GenericJustRun == phase # <<>> /\ phase[Len(phase)] = "generic"

\* status is protected: state is preserved in Runtime mode and the table of
\* the kind flags status as runtime
StatusProtected(kind) ==
    /\ options.PreserveResourceState
    /\ options.ResourceStateMode = "Runtime"
    /\ "status" \in RuntimePaths(kind)

\* C23: after the generic rule set has run with remove-status the document
\* has no status, unless status is protected, and then it has the status it
\* had before; a kind with no status entry in a table is never protected
C23_RemoveStatus ==
    GenericJustRun /\ options.RemoveStatus =>
        /\ obj.status = IF StatusProtected(obj.kind) /\ ~reverted THEN orig.status ELSE Nil
        /\ obj.kind \notin {"Deployment", "Service", "Pod"} => obj.status = Nil

\* a StatefulSet lost its status while state was preserved in Runtime mode
C23_Witness ==
    /\ GenericJustRun
    /\ options.RemoveStatus
    /\ options.PreserveResourceState
    /\ options.ResourceStateMode = "Runtime"
    /\ orig.kind = "StatefulSet"
    /\ orig.status # Nil
    /\ obj.status = Nil

\* the field of the removal list is kept: state is preserved and the flag of
\* spec.<field> in the Pod table matches the mode or, for a field that the
\* table does not list, the mode is Runtime
FieldKept(field) ==
    /\ options.PreserveResourceState
    /\ IF "spec." \o field \in DOMAIN TableOf("Pod")
       THEN \/ options.ResourceStateMode = "Desired" /\ TableOf("Pod")["spec." \o field]
            \/ options.ResourceStateMode = "Runtime" /\ ~TableOf("Pod")["spec." \o field]
       ELSE options.ResourceStateMode = "Runtime"

\* C24: the pod-spec rules keep a field of their removal list exactly when
\* state is preserved and either the Pod table lists the field with a flag
\* that matches the mode or the table does not list it and the mode is
\* Runtime; this holds for the rules applied to the pod spec of a decoded
\* document and for the spec of a cleaned Pod that was not rebuilt
C24_PodFieldGate ==
    /\ pc = "clean" /\ IsSMap(PodSpecOf(obj)) =>
          LET before == PodSpecOf(obj).m
              after == cleanPodSpec(before, options)
          IN  \A field \in podFieldsToRemove \cap DOMAIN before :
                  IF FieldKept(field)
                  THEN Get(after, field) = before[field]
                  ELSE field \notin DOMAIN after
    /\ Cleaned /\ orig.kind = "Pod" /\ ~reverted =>
          \A field \in podFieldsToRemove \cap DOMAIN Fields(orig.spec) :
              IF FieldKept(field)
              THEN Get(Fields(obj.spec), field) = orig.spec.m[field]
              ELSE field \notin DOMAIN Fields(obj.spec)

\* a Pod cleaned in Runtime mode with its node and its DNS policy kept
C24_Witness ==
    /\ Cleaned
    /\ orig.kind = "Pod"
    /\ ~reverted
    /\ options.PreserveResourceState
    /\ options.ResourceStateMode = "Runtime"
    /\ {"nodeName", "dnsPolicy"} \subseteq DOMAIN Fields(obj.spec)

\* the volume is one the rule is to remove: its name begins with
\* kube-api-access-, or it is named and projected from a serviceAccountToken
Removable(volume) ==
    /\ IsStr(Get(Fields(volume), "name"))
    /\ \/ HasPrefix(Fields(volume)["name"].s, "kube-api-access-")
       \/ \E source \in Entries(Get(Fields(Get(Fields(volume), "projected")), "sources")) :
              "serviceAccountToken" \in DOMAIN Fields(source)

\* the entries of the list that pass, as a list; nil when the list is not
\* there or nothing passes
Kept(list, Pass(_)) ==
    IF ~IsList(list) THEN Nil
    ELSE IF SelectSeq(list.q, Pass) = <<>> THEN Nil
    ELSE List(SelectSeq(list.q, Pass))

\* in both pod specs the containers of the type are the same in number, and
\* each has in the second the mounts it has in the first that name no
\* removable volume of the first, in their order
MountsFiltered(before, after, containerType) ==
    LET removed == {Fields(volume)["name"] :
                      volume \in {v \in Entries(Get(before, "volumes")) : Removable(v)}}
        was == Get(before, containerType)
        is == Get(after, containerType)
    IN  IsList(was) =>
            /\ IsList(is) /\ Len(is.q) = Len(was.q)
            /\ \A i \in 1..Len(was.q) :
                  Get(Fields(is.q[i]), "volumeMounts")
                      = Kept(Get(Fields(was.q[i]), "volumeMounts"),
                             LAMBDA vm : Get(Fields(vm), "name") \notin removed)

\* the volume rule has done on the pod spec what it is to do
VolumeRuleDone(before, after) ==
    /\ Get(after, "volumes") = Kept(Get(before, "volumes"), LAMBDA v : ~Removable(v))
    /\ MountsFiltered(before, after, "containers")
    /\ MountsFiltered(before, after, "initContainers")

\* C25: applied to the pod spec of a decoded document, the volume rule
\* removes the volumes named kube-api-access-... and the named projected
\* serviceAccountToken volumes and no other, keeps the rest in their order,
\* removes every mount that names a removed volume and keeps every other mount
C25_VolumeRule ==
    pc = "clean" /\ IsSMap(PodSpecOf(obj)) =>
        VolumeRuleDone(PodSpecOf(obj).m, cleanPodVolumes(PodSpecOf(obj).m))

\* the workload kinds with a rule set of their own
WorkloadKinds == {"Deployment", "StatefulSet", "DaemonSet"}

\* the spec fields the rule set of the kind deletes
Bookkeeping(kind) ==
    IF kind = "Deployment" THEN {"revisionHistoryLimit", "progressDeadlineSeconds"}
    ELSE {"revisionHistoryLimit"}

\* the field of the original spec is in the cleaned spec with the content it
\* had, a mapping being the same under either key type
AsItWas(field) ==
    Generic(Get(Fields(obj.spec), field)) = Generic(Get(Fields(orig.spec), field))

Targeted(opts) ==
    {"creationTimestamp", "resourceVersion", "selfLink", "uid", "ownerReferences",
     "generation", "annotations", "labels"}
    \cup (IF opts.RemoveManagedFields THEN {"managedFields"} ELSE {})
    \cup (IF opts.CleanupFinalizers THEN {"finalizers"} ELSE {})
    \cup (IF opts.RemoveNamespace THEN {"namespace"} ELSE {})

\* the generic rule set, and the metadata rule set in it, is about to run
BeforeGeneric ==
    \/ pc = "generic"
    \/ pc = "clean" /\ ~(GetCleaner(obj.kind) = "Pod" /\ options.RevertToDeployment)

\* C27: the metadata rule set leaves metadata that was there in place, empty
\* when it has deleted all of it, adds no field to it, and leaves every field
\* no rule is about as it was; while a document is cleaned its metadata goes
\* from present to absent in the pruner only
C27_MetadataStays ==
    /\ [](BeforeGeneric /\ obj.metadata # Nil =>
             LET after == GenericMetadataCleaner_Clean(obj, options).metadata
             IN  /\ IsSMap(after)
                 /\ DOMAIN after.m \subseteq DOMAIN obj.metadata.m
                 /\ \A field \in DOMAIN obj.metadata.m \ Targeted(options) :
                        Get(after.m, field) = obj.metadata.m[field])
    /\ [][pc # "decode" /\ obj.metadata # Nil /\ obj'.metadata = Nil => pc = "prune"]_vars

\* the generic rule set has run on metadata that had fields, all of them are
\* deleted, and the metadata is there, empty
C27_Witness ==
    /\ pc = "specific" /\ phase[Len(phase)] = "generic"
    /\ Fields(orig.metadata) # EmptyMap
    /\ obj.metadata = SMap(EmptyMap)

\* C28: a Pod whose string-keyed labels carry a non-empty string
\* pod-template-hash, handed to the Pod cleaner with revert enabled, is rebuilt
\* as a Deployment and the run is not aborted, whatever its metadata has for a
\* name
C28_RevertCompletes ==
    /\ orig.kind = "Pod" /\ options.RevertToDeployment
    /\ HasTemplateHash(orig) /\ IsSMap(Get(Fields(orig.metadata), "labels"))
    /\ pc # "clean"
    => /\ result.state # "panic"
       /\ reverted
       /\ obj.kind = "Deployment"

RECURSIVE StringKeyed(_)
\* the value with every mapping in it keyed by strings
StringKeyed(v) ==
    CASE v.t \in {"smap", "imap"} -> SMap([k \in DOMAIN v.m |-> StringKeyed(v.m[k])])
      [] v.t = "list" -> List([i \in 1..Len(v.q) |-> StringKeyed(v.q[i])])
      [] OTHER -> v

\* the document with the same content built from string-keyed mappings
Twin(o) ==
    [o EXCEPT !.metadata = StringKeyed(o.metadata), !.spec = StringKeyed(o.spec),
              !.status = StringKeyed(o.status), !.data = StringKeyed(o.data),
              !.stringData = StringKeyed(o.stringData)]

\* C29: a decoded document comes out of the cleaning pass with the content
\* that the same document built from string-keyed mappings comes out with
C29_KeyTypeIrrelevant ==
    Cleaned /\ orig \in DecodedDocs =>
        LET twin == cleanupKubernetesObject(Twin(orig), options)
        IN  ~twin.panic => Twin(obj) = Twin(twin.obj)

\* C30: when the run ends with a decode or encode error at document k, the
\* output is exactly the cleaned forms of the resources among the first k-1
\* documents, in stream order: nothing written is taken back, and nothing of
\* document k or of a later one is written
C30_NoRollback ==
    result.state \in {"decodeError", "encodeError"} =>
        LET earlier == ResourcesIn(result.doc - 1)
        IN  /\ Len(output) = Len(earlier)
            /\ \A i \in 1..Len(earlier) :
                  output[i] = cleanupKubernetesObject(earlier[i].doc, options).obj

\* the first document was written, the second was a resource too and failed
\* to encode: the output is the first alone
C30_Witness ==
    /\ result = [state |-> "encodeError", doc |-> 2]
    /\ Len(output) = 1
    /\ output[1].kind = input[1].doc.kind
    /\ input[2].doc.kind # "" /\ input[2].doc.apiVersion # ""

====
